---- MODULE Spec2Model ----
(***************************************************************************)
(* ESP32 constant-current controller firmware (src/src/main.cpp).          *)
(*                                                                         *)
(* Two activities: setup() followed by loop() on the Arduino loop task,    *)
(* and the three HTTP GET handlers /set, /setpid, /setadvanced that the    *)
(* web server runs once server.begin() has been called.                    *)
(*                                                                         *)
(* Numbers.  A C++ double is written <<v>> for the finite value v and <<>> *)
(* for NaN (String::toDouble is atof, which reads the text "nan" as NaN).  *)
(* Every comparison with NaN is false and every sum or product with NaN is *)
(* NaN, as in IEEE 754.  Currents are in mA and gains are integers.  The   *)
(* quantities the PID library derives from them (its working gains, its    *)
(* outputSum and the Output variable) are kept in tenths, which is exact   *)
(* for integer gains and samples with the library's 100 ms sample time     *)
(* (ki = Ki * 0.1, kd = Kd / 0.1).                                         *)
(***************************************************************************)
EXTENDS Integers, Sequences, FiniteSets, TLC

\* ------------------------------------------------------------------ bounds
\* The number of HTTP requests and of loop() iterations explored.
MaxRequests == 2
MaxTicks == 2

\* ------------------------------------------------------ program constants
MAXIMUM_BUS_VOLTAGE_INA219 == 25
DEFAULT_TARGET == 100
DEFAULT_LIMIT == 500
DEFAULT_SSE_INTERVAL == 1000
DEFAULT_KP == 20
DEFAULT_KI == 5
DEFAULT_KD == 1
DAC_MIN == 1
DAC_MAX == 255
PID_OUT_MIN == 0
PID_OUT_MAX == 255
PID_SAMPLE_TIME == 100
MIN_INTERVAL_MS == 100
LOOP_DELAY == 10
HalfWord == 65536

\* (int)((1.25 / 3.3) * 255.0): 1.25 * 255 / 3.3 = 96.59..., and the cast to
\* int truncates.  Computed in hundredths: 125 * 255 \div 330.
DAC_SAFETY_VALUE == (125 * 255) \div 330

\* ---------------------------------------------------------------- doubles
NaN == <<>>
D(n) == <<n>>
IsNaN(x) == x = <<>>
V(x) == x[1]

FAdd(a, b) == IF IsNaN(a) \/ IsNaN(b) THEN NaN ELSE D(V(a) + V(b))
FSub(a, b) == IF IsNaN(a) \/ IsNaN(b) THEN NaN ELSE D(V(a) - V(b))
FMul(a, b) == IF IsNaN(a) \/ IsNaN(b) THEN NaN ELSE D(V(a) * V(b))
FLt(a, b) == ~IsNaN(a) /\ ~IsNaN(b) /\ V(a) < V(b)
FGt(a, b) == FLt(b, a)
FLe(a, b) == ~IsNaN(a) /\ ~IsNaN(b) /\ V(a) <= V(b)
FGe(a, b) == FLe(b, a)

\* unsigned long (32 bits) as <<high, low>> 16-bit halves; n is a small int.
U32(n) == <<n \div HalfWord, n % HalfWord>>
U32Plus(a, n) ==
  LET lo == a[2] + n IN <<(a[1] + (lo \div HalfWord)) % HalfWord, lo % HalfWord>>
U32Add(a, b) ==
  LET lo == a[2] + b[2] IN <<(a[1] + b[1] + (lo \div HalfWord)) % HalfWord, lo % HalfWord>>
U32Minus(a, b) ==
  LET lo == a[2] - b[2]
      hi == a[1] - b[1] - (IF lo < 0 THEN 1 ELSE 0)
  IN <<hi % HalfWord, lo % HalfWord>>
U32Gt(a, n) == a[1] >= HalfWord \div 2 \/ a[1] * HalfWord + a[2] > n
U32Ge(a, n) == a[1] >= HalfWord \div 2 \/ a[1] * HalfWord + a[2] >= n

\* Fault variant of Min: the requested value is stored unclamped.
MinBuggy(a, b) == a
\* std::min(a, b) is (b < a) ? b : a.
Min(a, b) == IF FLt(b, a) THEN b ELSE a

\* constrain(x, lo, hi) on ints.
Constrain(x, lo, hi) == IF x < lo THEN lo ELSE IF x > hi THEN hi ELSE x

\* ----------------------------------------------------- request parameters
\* A query parameter is Absent or carries a text: a number <<"num", n>>,
\* the text nan <<"nan">>, or some other non-numeric text <<"text">>.
Absent == <<>>
Num(n) == <<"num", n>>
Text == <<"text">>
NanText == <<"nan">>

hasParam(p) == p # Absent

\* String::toDouble / String::toFloat (atof): the number a numeric text
\* denotes, NaN for the text nan, 0 when the text is no number.
toDouble(p) ==
  IF Len(p) = 2 THEN D(p[2])
  ELSE IF p = NanText THEN NaN
  ELSE D(0)

\* The requests the model sends.  current, max, kp, ki, kd are in natural
\* units; interval is in thousandths of a second (Num(50) is the text 0.05,
\* Num(251) the text 0.251).
CurrentParams == {Absent, Text, NanText, Num(-5), Num(50), Num(800)}
PidParams ==
  {<<Num(10), Text, Num(0)>>, <<Num(-1), Text, Num(0)>>, <<Absent, Text, Num(0)>>,
   <<Num(10), Absent, Num(0)>>, <<Num(10), Text, Absent>>, <<Absent, Absent, Absent>>}
AdvancedParams ==
  {<<Absent, Absent>>, <<Text, Absent>>, <<NanText, Absent>>, <<Num(60), Absent>>,
   <<Absent, Text>>, <<Absent, NanText>>, <<Absent, Num(50)>>, <<Absent, Num(251)>>,
   <<Absent, Num(2000)>>, <<Num(60), Text>>, <<Num(60), Num(50)>>}

\* A request is <<route, parameters>>.
SetRequests == {<<"set", <<current>>>> : current \in CurrentParams}
SetPidRequests == {<<"setpid", q>> : q \in PidParams}
SetAdvancedRequests == {<<"setadvanced", q>> : q \in AdvancedParams}
Requests == SetRequests \cup SetPidRequests \cup SetAdvancedRequests

\* The sensor readings (volts, mA) and the duration of one loop() iteration
\* (ms) with the whole of the requests.
Volts == {26}
Currents == {50}
LoopPeriods == {10 * LOOP_DELAY}
\* The milliseconds millis() may advance by between two statements of an iteration.
Drifts == {1}

\* The time (ms) wm.autoConnect() takes to join the network.
ConnectTimes == {U32(100 * LOOP_DELAY)}
\* A wait in the configuration portal of wm.autoConnect(), which has no
\* timeout: it ends 50 ms before millis() wraps at 2^32.  The iterations of
\* loop() that follow take 100 or 200 ms.
PortalTimes == {<<HalfWord - 1, HalfWord - 5 * LOOP_DELAY>>}
WrapPeriods == {10 * LOOP_DELAY, 20 * LOOP_DELAY}

\* The int a conversion of NaN to int may yield (undefined in C++): INT_MIN,
\* as the x86 conversion instruction gives, or any other int.
UndefinedInts == {-2147483647 - 1, 0, DAC_SAFETY_VALUE + 1, 2147483647}
\* The unsigned long a conversion of a NaN float may yield (undefined in C++).
UndefinedIntervals == {0, 2147483647}

VARIABLES
  pc,                  \* position of the loop task: boot, wifi, serving, running, halt
  ms,                  \* millis()
  busVoltage_V, current_mA,
  targetCurrent_mA, maxCurrentLimit_mA, sseInterval,
  Setpoint, Input, Output,
  Kp, Ki, Kd,
  myPID,               \* the PID object's private state
  dac,                 \* last level written with dacWrite: <<>> before the first
  calibration,         \* last limit (mA) passed to ina219.setMaxCurrentShunt: <<>> before
  lastEventTime,
  snapshot,            \* the telemetry event the step just taken sent: <<>> if none
  safety,              \* branch the last loop() iteration took
  lastReq,             \* the request that has just returned, with its answer
  nReq, ticks,
  handler,             \* the request the web server task is serving, and where it is
  tick                 \* where the loop task is inside loop()

vars == <<pc, ms, busVoltage_V, current_mA, targetCurrent_mA, maxCurrentLimit_mA,
          sseInterval, Setpoint, Input, Output, Kp, Ki, Kd, myPID, dac,
          calibration, lastEventTime, snapshot, safety, lastReq, nReq, ticks,
          handler, tick>>

\* The control parameters: the globals the handlers write, and the gains the
\* PID object works with.
params == <<targetCurrent_mA, maxCurrentLimit_mA, sseInterval, Setpoint, Kp, Ki, Kd,
            myPID.kp, myPID.ki, myPID.kd>>

\* --------------------------------------------------------------- PID_v1
\* SetTunings: rejected when a gain is negative; working gains in tenths.
PID_SetTunings(p, kp, ki, kd) ==
  IF FLt(kp, D(0)) \/ FLt(ki, D(0)) \/ FLt(kd, D(0)) THEN p
  ELSE [p EXCEPT !.kp = FMul(D(10), kp),
                 !.ki = IF IsNaN(ki) THEN NaN ELSE D((V(ki) * PID_SAMPLE_TIME) \div 100),
                 !.kd = IF IsNaN(kd) THEN NaN ELSE D((V(kd) * 10000) \div PID_SAMPLE_TIME)]

\* Clamp of a value in tenths to [outMin, outMax].
PID_Clamp(p, x) ==
  IF FGt(x, D(10 * p.outMax)) THEN D(10 * p.outMax)
  ELSE IF FLt(x, D(10 * p.outMin)) THEN D(10 * p.outMin)
  ELSE x

\* The PID object as the constructor leaves it (static initialisation, millis() = 0).
PID_New ==
  PID_SetTunings(
    [inAuto |-> FALSE, outMin |-> PID_OUT_MIN, outMax |-> PID_OUT_MAX,
     kp |-> D(0), ki |-> D(0), kd |-> D(0),
     outputSum |-> D(0), lastInput |-> 0,
     lastTime |-> U32Minus(U32(0), U32(PID_SAMPLE_TIME))],
    D(DEFAULT_KP), D(DEFAULT_KI), D(DEFAULT_KD))

\* SetMode(AUTOMATIC): on the change from manual, Initialize().
PID_SetModeAutomatic(p, input, output) ==
  IF p.inAuto THEN p
  ELSE [p EXCEPT !.inAuto = TRUE,
                 !.outputSum = PID_Clamp(p, output),
                 !.lastInput = input]

\* SetOutputLimits(lo, hi): returns the object and the Output variable.
PID_SetOutputLimits(p, output, lo, hi) ==
  IF lo >= hi THEN [pid |-> p, out |-> output]
  ELSE LET q == [p EXCEPT !.outMin = lo, !.outMax = hi]
       IN IF q.inAuto
          THEN [pid |-> [q EXCEPT !.outputSum = PID_Clamp(q, q.outputSum)],
                out |-> PID_Clamp(q, output)]
          ELSE [pid |-> q, out |-> output]

\* Compute(): nothing unless automatic and a sample time has passed.
PID_Due(p, now) == p.inAuto /\ U32Ge(U32Minus(now, p.lastTime), PID_SAMPLE_TIME)

PID_Compute(p, now, input, setpoint, output) ==
  IF ~PID_Due(p, now) THEN [pid |-> p, out |-> output]
  ELSE LET error == FSub(setpoint, D(input))
           dInput == input - p.lastInput
           sum == PID_Clamp(p, FAdd(p.outputSum, FMul(p.ki, error)))
           res == PID_Clamp(p, FAdd(FMul(p.kp, error), FSub(sum, FMul(p.kd, D(dInput)))))
       IN [pid |-> [p EXCEPT !.outputSum = sum, !.lastInput = input, !.lastTime = now],
           out |-> res]

\* ------------------------------------------------------------- actuator
\* (int)pidOutput for a value in tenths: truncation toward zero; any int for
\* NaN.
IntCast(x) ==
  IF IsNaN(x) THEN UndefinedInts
  ELSE IF V(x) >= 0 THEN {V(x) \div 10}
  ELSE {-((-V(x)) \div 10)}

\* Fault variant of setBuckFeedback: the constrain is missing.
setBuckFeedbackNoConstrain(pidOutput) == IntCast(pidOutput)
\* setBuckFeedback: the levels dacWrite may receive for a PID output.
setBuckFeedback(pidOutput) ==
  {Constrain(i, DAC_MIN, DAC_MAX) : i \in IntCast(pidOutput)}

\* ---------------------------------------------------------------- Init
NoRequest == [route |-> "none", args |-> <<>>, status |-> 0]
\* No request is being served; loop() is not executing.
NoHandler == [route |-> "none", args |-> <<>>, at |-> "idle", before |-> <<>>]
NoTick == [at |-> "idle", quiet |-> FALSE]

Init ==
  /\ pc = "boot"
  /\ ms = U32(0)
  /\ busVoltage_V = 0
  /\ current_mA = 0
  /\ targetCurrent_mA = D(DEFAULT_TARGET)
  /\ maxCurrentLimit_mA = D(DEFAULT_LIMIT)
  /\ sseInterval = DEFAULT_SSE_INTERVAL
  /\ Setpoint = D(0)
  /\ Input = 0
  /\ Output = D(0)
  /\ Kp = D(DEFAULT_KP)
  /\ Ki = D(DEFAULT_KI)
  /\ Kd = D(DEFAULT_KD)
  /\ myPID = PID_New
  /\ dac = <<>>
  /\ calibration = <<>>
  /\ lastEventTime = U32(0)
  /\ snapshot = <<>>
  /\ safety = "NONE"
  /\ lastReq = NoRequest
  /\ nReq = 0
  /\ ticks = 0
  /\ handler = NoHandler
  /\ tick = NoTick

\* ------------------------------------------------- float and double detail
\* a / d rounded to the nearest integer, ties to the even one.
RoundHalfEven(a, d) ==
  LET q == a \div d
      r == a % d
  IN IF 2 * r > d \/ (2 * r = d /\ q % 2 = 1) THEN q + 1 ELSE q

\* A float has 24 bits of mantissa.  n * 2^j for the least j that brings it to
\* 125 * 2^23 or more, so that n / 1000 = (x / 125) / 2^(j + 3) has a 24-bit
\* integer part x / 125.
FloatTop == 8388608
RECURSIVE ScaleUp(_)
ScaleUp(x) == IF x >= 125 * FloatTop THEN x ELSE ScaleUp(2 * x)

\* (unsigned long)(intervalSeconds * 1000) for the float nearest to n / 1000,
\* 100 <= n < 10^9: the float's mantissa m, the product m * 125 rounded to 24
\* bits (it has 30 or 31), and the integer part of the result.
FloatMillis(n) ==
  LET x == ScaleUp(n)
      m == RoundHalfEven(x, 125)
      p == m * 125
      s == IF p >= 128 * FloatTop THEN 128 ELSE 64
  IN (RoundHalfEven(p, s) * s) \div (x \div n)

\* A double has 53 bits of mantissa.  Naturals wider than an int are strings
\* of bits, most significant first; a non-negative double is m * 2^e.
MantissaBits == 53
GuardBits == 64

RECURSIVE Bits(_)
Bits(n) == IF n = 0 THEN <<>> ELSE Append(Bits(n \div 2), n % 2)

RECURSIVE BitsValue(_)
BitsValue(b) ==
  IF b = <<>> THEN 0 ELSE 2 * BitsValue(SubSeq(b, 1, Len(b) - 1)) + b[Len(b)]

Strip(b) ==
  IF \A i \in 1..Len(b) : b[i] = 0 THEN <<>>
  ELSE LET first == CHOOSE i \in 1..Len(b) : b[i] = 1 /\ \A j \in 1..(i - 1) : b[j] = 0
       IN SubSeq(b, first, Len(b))

Zeros(n) == [i \in 1..n |-> 0]

\* Bit i of b counted from the least significant one, 0 beyond its length.
BitAt(b, i) == IF i <= Len(b) THEN b[Len(b) + 1 - i] ELSE 0

\* The sum of two bit strings: the carry into a position comes from the
\* nearest lower position where both bits are set, passed on where one is.
BitsAdd(a, b) ==
  LET w == (IF Len(a) > Len(b) THEN Len(a) ELSE Len(b)) + 1
      carry(i) == \E j \in 1..(i - 1) :
                    /\ BitAt(a, j) = 1 /\ BitAt(b, j) = 1
                    /\ \A k \in (j + 1)..(i - 1) : BitAt(a, k) + BitAt(b, k) >= 1
  IN Strip([p \in 1..w |->
              LET i == w + 1 - p
              IN (BitAt(a, i) + BitAt(b, i) + (IF carry(i) THEN 1 ELSE 0)) % 2])

\* Long division by a divisor up to 10^7, seven bits at a time so that
\* remainder * 128 + chunk stays within an int: <<quotient bits, remainder>>.
ChunkBits == 7
ChunkBase == 128

ChunkValue(c) ==
  64 * c[1] + 32 * c[2] + 16 * c[3] + 8 * c[4] + 4 * c[5] + 2 * c[6] + c[7]

ChunkOf(v) ==
  <<(v \div 64) % 2, (v \div 32) % 2, (v \div 16) % 2, (v \div 8) % 2,
    (v \div 4) % 2, (v \div 2) % 2, v % 2>>

RECURSIVE ChunksDivRem(_, _, _, _)
ChunksDivRem(b, d, q, r) ==
  IF b = <<>> THEN <<Strip(q), r>>
  ELSE LET t == ChunkBase * r + ChunkValue(SubSeq(b, 1, ChunkBits))
       IN ChunksDivRem(SubSeq(b, ChunkBits + 1, Len(b)), d, q \o ChunkOf(t \div d), t % d)

BitsDivRem(b, d) ==
  ChunksDivRem(Zeros((ChunkBits - (Len(b) % ChunkBits)) % ChunkBits) \o b, d, <<>>, 0)

Dbl(m, e) == [m |-> m, e |-> e]

\* bits * 2^e, with a sticky rest below it, rounded to a double: to the
\* nearest, ties to even.
RoundDbl(bits, e, sticky) ==
  LET b == Strip(bits)
      n == Len(b)
  IN IF n <= MantissaBits THEN Dbl(b, e)
     ELSE LET keep == SubSeq(b, 1, MantissaBits)
              rest == sticky \/ \E i \in (MantissaBits + 2)..n : b[i] = 1
              up == b[MantissaBits + 1] = 1 /\ (rest \/ keep[MantissaBits] = 1)
              r == IF up THEN BitsAdd(keep, <<1>>) ELSE keep
          IN IF Len(r) > MantissaBits
             THEN Dbl(SubSeq(r, 1, MantissaBits), e + n - MantissaBits + 1)
             ELSE Dbl(r, e + n - MantissaBits)

\* x / d, x + y and x * 10.0 in double arithmetic.
DblDiv(x, d) ==
  LET qr == BitsDivRem(x.m \o Zeros(GuardBits), d)
  IN RoundDbl(qr[1], x.e - GuardBits, qr[2] # 0)

DblAdd(x, y) ==
  LET e == IF x.e < y.e THEN x.e ELSE y.e
  IN RoundDbl(BitsAdd(x.m \o Zeros(x.e - e), y.m \o Zeros(y.e - e)), e, FALSE)

DblTimes10(x) == RoundDbl(BitsAdd(x.m \o <<0, 0, 0>>, x.m \o <<0>>), x.e, FALSE)

\* (int)x, and x - (int)x, which is exact.
DblInt(x) ==
  IF x.e >= 0 THEN BitsValue(x.m \o Zeros(x.e))
  ELSE IF -x.e >= Len(x.m) THEN 0
  ELSE BitsValue(SubSeq(x.m, 1, Len(x.m) + x.e))

DblFrac(x) ==
  IF x.e >= 0 THEN Dbl(<<>>, 0)
  ELSE IF -x.e >= Len(x.m) THEN x
  ELSE Dbl(Strip(SubSeq(x.m, Len(x.m) + x.e + 1, Len(x.m))), x.e)

\* dtostrf, which String(double, decimalPlaces) prints with: the power of
\* ten of the leading digit, the number of digits before the point, and the
\* digits taken one by one from the front, as the number they spell.
RECURSIVE TenPow(_, _)
TenPow(x, p) == IF DblInt(x) >= 10 * p THEN TenPow(x, 10 * p) ELSE p

RECURSIVE DigitCount(_)
DigitCount(p) == IF p = 1 THEN 1 ELSE 1 + DigitCount(p \div 10)

RECURSIVE Digits(_, _, _)
Digits(x, count, acc) ==
  IF count = 0 THEN acc
  ELSE Digits(DblTimes10(DblFrac(x)), count - 1, 10 * acc + DblInt(x))

\* String(sseInterval / 1000.0, 1), as the number of tenths it prints: half a
\* tenth (1.0 / 20.0) is added, and the digits are cut off after the first
\* decimal.
Tenths(interval) ==
  LET number == DblAdd(DblDiv(Dbl(Bits(interval), 0), 1000), DblDiv(Dbl(<<1>>, 0), 20))
      tenpow == TenPow(number, 1)
  IN Digits(DblDiv(number, tenpow), DigitCount(tenpow) + 1, 0)

\* ---------------------------------------------------------------- setup
\* Fault variant of SetupSensor: the DAC is written before the sensor is set up.
SetupSensorDacFirst ==
  /\ pc = "boot"
  /\ \E beginOk \in BOOLEAN, calibOk \in BOOLEAN :
       /\ calibration' = IF beginOk THEN <<maxCurrentLimit_mA>> ELSE calibration
       /\ dac' = <<DAC_MIN>>
       /\ pc' = IF beginOk /\ calibOk THEN "wifi" ELSE "halt"
  /\ UNCHANGED <<ms, busVoltage_V, current_mA, targetCurrent_mA, maxCurrentLimit_mA,
                 sseInterval, Setpoint, Input, Output, Kp, Ki, Kd, myPID,
                 lastEventTime, snapshot, safety, nReq, ticks>>
  /\ lastReq' = NoRequest
  /\ UNCHANGED <<handler, tick>>
\* setup() up to the first dacWrite: ina219.begin(), setMaxCurrentShunt(), then
\* dacWrite(DAC_PIN, 1).  A failure of either call spins in while (1) forever.
SetupSensor ==
  /\ pc = "boot"
  /\ \E beginOk \in BOOLEAN, calibOk \in BOOLEAN :
       /\ calibration' = IF beginOk THEN <<maxCurrentLimit_mA>> ELSE calibration
       /\ dac' = IF beginOk /\ calibOk THEN <<DAC_MIN>> ELSE dac
       /\ pc' = IF beginOk /\ calibOk THEN "wifi" ELSE "halt"
  /\ UNCHANGED <<ms, busVoltage_V, current_mA, targetCurrent_mA, maxCurrentLimit_mA,
                 sseInterval, Setpoint, Input, Output, Kp, Ki, Kd, myPID,
                 lastEventTime, snapshot, safety, nReq, ticks>>
  /\ lastReq' = NoRequest
  /\ UNCHANGED <<handler, tick>>

\* while (1) { delay(10); }
Halt ==
  /\ pc = "halt"
  /\ ticks < MaxTicks
  /\ ticks' = ticks + 1
  /\ ms' = U32Plus(ms, LOOP_DELAY)
  /\ UNCHANGED <<pc, busVoltage_V, current_mA, targetCurrent_mA, maxCurrentLimit_mA,
                 sseInterval, Setpoint, Input, Output, Kp, Ki, Kd, myPID, dac,
                 calibration, lastEventTime, snapshot, safety, nReq>>
  /\ lastReq' = NoRequest
  /\ UNCHANGED <<handler, tick>>

\* wm.autoConnect(), which takes one of the given times: on success the
\* routes are registered and server.begin() is called; on failure
\* ESP.restart() reboots into the initial state.
SetupWifi(times) ==
  /\ pc = "wifi"
  /\ \E connected \in BOOLEAN :
       IF connected
       THEN /\ pc' = "serving"
            /\ \E t \in times : ms' = U32Add(ms, t)
            /\ UNCHANGED <<dac, calibration>>
       ELSE /\ pc' = "boot"
            /\ ms' = U32(0)
            /\ dac' = <<>>
            /\ calibration' = <<>>
  /\ UNCHANGED <<busVoltage_V, current_mA, targetCurrent_mA, maxCurrentLimit_mA,
                 sseInterval, Setpoint, Input, Output, Kp, Ki, Kd, myPID,
                 lastEventTime, snapshot, safety, nReq, ticks>>
  /\ lastReq' = NoRequest
  /\ UNCHANGED <<handler, tick>>

\* loop() runs on the loop task and the handlers on the web server's task,
\* from server.begin() on: nothing orders an access of one to a global
\* against the accesses of the other.  Each statement of a handler and each
\* stage of the end of setup() and of loop() is a step of its own; the
\* server's task serves one request at a time.

\* The end of setup(), Setpoint = targetCurrent_mA;, is a load of the target
\* and a store to Setpoint; the server is already started, so a handler can
\* run between the two.  The load:
SetupLoadTarget ==
  /\ pc = "serving" /\ tick.at = "idle"
  /\ tick' = [at |-> "setpoint", quiet |-> FALSE, target |-> targetCurrent_mA]
  /\ lastReq' = NoRequest
  /\ snapshot' = <<>>
  /\ UNCHANGED <<pc, ms, busVoltage_V, current_mA, targetCurrent_mA, maxCurrentLimit_mA,
                 sseInterval, Setpoint, Input, Output, Kp, Ki, Kd, myPID, dac,
                 calibration, lastEventTime, safety, nReq, ticks, handler>>

\* The store, then myPID.SetMode(AUTOMATIC); myPID.SetOutputLimits(0, 255);
SetupStoreSetpoint ==
  /\ pc = "serving" /\ tick.at = "setpoint"
  /\ Setpoint' = tick.target
  /\ LET r == PID_SetOutputLimits(PID_SetModeAutomatic(myPID, Input, Output),
                                  Output, PID_OUT_MIN, PID_OUT_MAX)
     IN /\ myPID' = r.pid
        /\ Output' = r.out
  /\ pc' = "running"
  /\ tick' = NoTick
  /\ lastReq' = NoRequest
  /\ snapshot' = <<>>
  /\ UNCHANGED <<ms, busVoltage_V, current_mA, targetCurrent_mA, maxCurrentLimit_mA,
                 sseInterval, Input, Kp, Ki, Kd, dac, calibration,
                 lastEventTime, safety, nReq, ticks, handler>>

\* ------------------------------------------------------------- handlers
Serving == pc \in {"serving", "running"} /\ nReq < MaxRequests

\* Fault variant of PidParamsPresent: kd is not asked for.
PidParamsPresentTwo(kp, ki, kd) == hasParam(kp) /\ hasParam(ki)
\* The condition of the /setpid handler.
PidParamsPresent(kp, ki, kd) == hasParam(kp) /\ hasParam(ki) /\ hasParam(kd)

\* The interval stored for an interval text in thousandths of a second: the
\* float, raised to 0.1 when below it, times 1000, as an unsigned long.  NaN
\* is not below 0.1, and its conversion is undefined.
IntervalMs(interval) ==
  LET intervalSeconds == toDouble(interval)
  IN IF IsNaN(intervalSeconds) THEN UndefinedIntervals
     ELSE IF V(intervalSeconds) < MIN_INTERVAL_MS THEN {FloatMillis(MIN_INTERVAL_MS)}
     ELSE {FloatMillis(V(intervalSeconds))}

\* Whether the new limit makes /setadvanced lower the target.
TargetAbove(target, limit) == FGt(target, limit)

\* The status /setadvanced answers with.
SetAdvancedStatus(max, interval) == 200

\* The stored control parameters, as one record.
Stored ==
  [target |-> targetCurrent_mA, limit |-> maxCurrentLimit_mA, interval |-> sseInterval,
   setpoint |-> Setpoint, Kp |-> Kp, Ki |-> Ki, Kd |-> Kd,
   kp |-> myPID.kp, ki |-> myPID.ki, kd |-> myPID.kd]

\* What the globals and the loop's variables are left as by a handler step.
HandlerFrame ==
  /\ UNCHANGED <<pc, ms, busVoltage_V, current_mA, Input, Output, dac,
                 lastEventTime, safety, ticks>>
  /\ snapshot' = <<>>

\* The handler's last statement: request->send(status, ...).
Send(status) ==
  /\ lastReq' = [route |-> handler.route, args |-> handler.args, status |-> status]
  /\ handler' = NoHandler

\* The handler moves on to its next statement.
Goto(label) ==
  /\ handler' = [handler EXCEPT !.at = label]
  /\ lastReq' = NoRequest

\* Whether the request carries what its handler asks for first.
Accepted(route, args) ==
  CASE route = "set" -> hasParam(args[1])
    [] route = "setpid" -> PidParamsPresent(args[1], args[2], args[3])
    [] OTHER -> TRUE

\* The first statement the handler of an accepted request executes.
FirstStatement(route, args) ==
  CASE route = "set" -> "target"
    [] route = "setpid" -> "kp"
    [] OTHER -> IF hasParam(args[1]) THEN "limit" ELSE "interval"

\* The server's task takes up one of the requests: the handler's test of
\* hasParam, and send(400) when it fails.
AcceptFrom(requests) ==
  /\ Serving
  /\ handler = NoHandler
  /\ nReq' = nReq + 1
  /\ \E r \in requests :
       IF Accepted(r[1], r[2])
       THEN /\ handler' = [route |-> r[1], args |-> r[2],
                           at |-> FirstStatement(r[1], r[2]), before |-> Stored]
            /\ lastReq' = NoRequest
       ELSE /\ handler' = NoHandler
            /\ lastReq' = [route |-> r[1], args |-> r[2], status |-> 400]
  /\ tick' = [tick EXCEPT !.quiet = FALSE]
  /\ HandlerFrame
  /\ UNCHANGED <<targetCurrent_mA, maxCurrentLimit_mA, sseInterval, Setpoint,
                 Kp, Ki, Kd, myPID, calibration>>

\* /set: targetCurrent_mA = min(reqCurrent, maxCurrentLimit_mA);
SetTarget ==
  /\ handler.route = "set" /\ handler.at = "target"
  /\ targetCurrent_mA' = Min(toDouble(handler.args[1]), maxCurrentLimit_mA)
  /\ Goto("setpoint")
  /\ HandlerFrame
  /\ UNCHANGED <<maxCurrentLimit_mA, sseInterval, Setpoint, Kp, Ki, Kd, myPID,
                 calibration, nReq, tick>>

\* /set: Setpoint = targetCurrent_mA; send(200).
SetSetpoint ==
  /\ handler.route = "set" /\ handler.at = "setpoint"
  /\ Setpoint' = targetCurrent_mA
  /\ Send(200)
  /\ HandlerFrame
  /\ UNCHANGED <<targetCurrent_mA, maxCurrentLimit_mA, sseInterval, Kp, Ki, Kd, myPID,
                 calibration, nReq, tick>>

\* /setpid: Kp = ...toDouble();
PidKp ==
  /\ handler.at = "kp"
  /\ Kp' = toDouble(handler.args[1])
  /\ Goto("ki")
  /\ HandlerFrame
  /\ UNCHANGED <<targetCurrent_mA, maxCurrentLimit_mA, sseInterval, Setpoint, Ki, Kd,
                 myPID, calibration, nReq, tick>>

\* /setpid: Ki = ...toDouble();
PidKi ==
  /\ handler.at = "ki"
  /\ Ki' = toDouble(handler.args[2])
  /\ Goto("kd")
  /\ HandlerFrame
  /\ UNCHANGED <<targetCurrent_mA, maxCurrentLimit_mA, sseInterval, Setpoint, Kp, Kd,
                 myPID, calibration, nReq, tick>>

\* /setpid: Kd = ...toDouble();
PidKd ==
  /\ handler.at = "kd"
  /\ Kd' = toDouble(handler.args[3])
  /\ Goto("tunings")
  /\ HandlerFrame
  /\ UNCHANGED <<targetCurrent_mA, maxCurrentLimit_mA, sseInterval, Setpoint, Kp, Ki,
                 myPID, calibration, nReq, tick>>

\* /setpid: myPID.SetTunings(Kp, Ki, Kd); send(200).
PidTunings ==
  /\ handler.at = "tunings"
  /\ myPID' = PID_SetTunings(myPID, Kp, Ki, Kd)
  /\ Send(200)
  /\ HandlerFrame
  /\ UNCHANGED <<targetCurrent_mA, maxCurrentLimit_mA, sseInterval, Setpoint, Kp, Ki, Kd,
                 calibration, nReq, tick>>

\* /setadvanced: maxCurrentLimit_mA = ...toDouble();
AdvLimit ==
  /\ handler.at = "limit"
  /\ maxCurrentLimit_mA' = toDouble(handler.args[1])
  /\ Goto("calibrate")
  /\ HandlerFrame
  /\ UNCHANGED <<targetCurrent_mA, sseInterval, Setpoint, Kp, Ki, Kd, myPID,
                 calibration, nReq, tick>>

\* Fault variant of AdvCalibrate: the sensor is calibrated with the limit
\* stored before the request.
AdvCalibrateOld ==
  /\ handler.at = "calibrate"
  /\ calibration' = <<handler.before.limit>>
  /\ Goto("clamp")
  /\ HandlerFrame
  /\ UNCHANGED <<targetCurrent_mA, maxCurrentLimit_mA, sseInterval, Setpoint, Kp, Ki, Kd,
                 myPID, nReq, tick>>
\* /setadvanced: ina219.setMaxCurrentShunt(maxCurrentLimit_mA / 1000.0, ...);
AdvCalibrate ==
  /\ handler.at = "calibrate"
  /\ calibration' = <<maxCurrentLimit_mA>>
  /\ Goto("clamp")
  /\ HandlerFrame
  /\ UNCHANGED <<targetCurrent_mA, maxCurrentLimit_mA, sseInterval, Setpoint, Kp, Ki, Kd,
                 myPID, nReq, tick>>

\* /setadvanced: if (targetCurrent_mA > maxCurrentLimit_mA)
\*                 targetCurrent_mA = maxCurrentLimit_mA;
AdvClamp ==
  /\ handler.at = "clamp"
  /\ IF TargetAbove(targetCurrent_mA, maxCurrentLimit_mA)
     THEN targetCurrent_mA' = maxCurrentLimit_mA /\ Goto("lower")
     ELSE UNCHANGED targetCurrent_mA /\ Goto("interval")
  /\ HandlerFrame
  /\ UNCHANGED <<maxCurrentLimit_mA, sseInterval, Setpoint, Kp, Ki, Kd, myPID,
                 calibration, nReq, tick>>

\* /setadvanced: Setpoint = targetCurrent_mA; (inside the if)
AdvSetpoint ==
  /\ handler.at = "lower"
  /\ Setpoint' = targetCurrent_mA
  /\ Goto("interval")
  /\ HandlerFrame
  /\ UNCHANGED <<targetCurrent_mA, maxCurrentLimit_mA, sseInterval, Kp, Ki, Kd, myPID,
                 calibration, nReq, tick>>

\* /setadvanced: the interval block, then send(200).
AdvInterval ==
  /\ handler.at = "interval"
  /\ IF hasParam(handler.args[2])
     THEN \E interval \in IntervalMs(handler.args[2]) : sseInterval' = interval
     ELSE UNCHANGED sseInterval
  /\ Send(SetAdvancedStatus(handler.args[1], handler.args[2]))
  /\ HandlerFrame
  /\ UNCHANGED <<targetCurrent_mA, maxCurrentLimit_mA, Setpoint, Kp, Ki, Kd, myPID,
                 calibration, nReq, tick>>

\* ----------------------------------------------------------------- loop
\* Fault variant of Clamped: the voltage alone decides.
ClampedVoltageOnly(v, target, c) == v >= MAXIMUM_BUS_VOLTAGE_INA219
\* The safety check of loop().
Clamped(v, target, c) ==
  v >= MAXIMUM_BUS_VOLTAGE_INA219 /\ FGt(target, D(c))

\* The report intervals the requests of the model can store, each with the
\* tenths of a second printed for it.
StoredIntervals ==
  {DEFAULT_SSE_INTERVAL} \cup UNION {IntervalMs(q[2]) : q \in AdvancedParams}
TenthsPrinted == {<<interval, Tenths(interval)>> : interval \in StoredIntervals}
SecondsTenths(interval) ==
  IF interval \in StoredIntervals
  THEN (CHOOSE p \in TenthsPrinted : p[1] = interval)[2]
  ELSE Tenths(interval)

\* The telemetry event events.send receives: the fields appended to
\* jsonData in the order of lines 397-405 (String(x, 2) of the doubles,
\* sse_interval as the tenths of a second String(sseInterval / 1000.0, 1)
\* prints), with the event id.
Telemetry(json, id) ==
  [voltage |-> json[1], current |-> json[2], setpoint |-> json[3],
   kp |-> json[4], ki |-> json[5], kd |-> json[6], max_limit |-> json[7],
   sse_interval |-> json[8], id |-> id]

\* Fault variant of TelemetryDue: the present time is compared with the
\* time of the last event plus the interval, without the wrap.
TelemetryDueNoWrap ==
  LET lo == lastEventTime[2] + (sseInterval % HalfWord)
      due == <<lastEventTime[1] + (sseInterval \div HalfWord) + (lo \div HalfWord),
               lo % HalfWord>>
  IN ms[1] > due[1] \/ (ms[1] = due[1] /\ ms[2] > due[2])
\* millis() - lastEventTime > sseInterval, in unsigned long.
TelemetryDue == U32Gt(U32Minus(ms, lastEventTime), sseInterval)

\* Fault variant of TickFrame: loop() refreshes Setpoint from the target.
TickFrameSyncsSetpoint ==
  /\ UNCHANGED <<pc, handler, nReq, calibration>>
  /\ UNCHANGED <<targetCurrent_mA, maxCurrentLimit_mA, sseInterval, Kp, Ki, Kd>>
  /\ Setpoint' = targetCurrent_mA
  /\ lastReq' = NoRequest
\* What a stage of loop() leaves alone: the handler's position, and every
\* control parameter held in a global.
TickFrame ==
  /\ UNCHANGED <<pc, handler, nReq, calibration>>
  /\ UNCHANGED <<targetCurrent_mA, maxCurrentLimit_mA, sseInterval, Setpoint, Kp, Ki, Kd>>
  /\ lastReq' = NoRequest

\* Fault variant of ReadVoltage: loop() waits until no request is being served.
ReadVoltageWhenIdle(volts) ==
  /\ pc = "running" /\ tick.at = "idle"
  /\ handler = NoHandler
  /\ ticks < MaxTicks
  /\ \E v \in volts : busVoltage_V' = v
  /\ tick' = [at |-> "current", quiet |-> handler = NoHandler, spent |-> 0,
              json |-> <<>>, stored |-> <<>>]
  /\ snapshot' = <<>>
  /\ TickFrame
  /\ UNCHANGED <<ms, current_mA, Input, Output, myPID, dac, lastEventTime, safety, ticks>>
\* busVoltage_V = ina219.getBusVoltage();
ReadVoltage(volts) ==
  /\ pc = "running" /\ tick.at = "idle"
  /\ ticks < MaxTicks
  /\ \E v \in volts : busVoltage_V' = v
  /\ tick' = [at |-> "current", quiet |-> handler = NoHandler, spent |-> 0,
              json |-> <<>>, stored |-> <<>>]
  /\ snapshot' = <<>>
  /\ TickFrame
  /\ UNCHANGED <<ms, current_mA, Input, Output, myPID, dac, lastEventTime, safety, ticks>>

\* current_mA = ina219.getCurrent_mA();
ReadCurrent(currents) ==
  /\ tick.at = "current"
  /\ \E c \in currents : current_mA' = c
  /\ tick' = [tick EXCEPT !.at = "check"]
  /\ snapshot' = <<>>
  /\ TickFrame
  /\ UNCHANGED <<ms, busVoltage_V, Input, Output, myPID, dac, lastEventTime, safety, ticks>>

\* Fault variant of ClampBranch: the PID is computed on a clamped iteration too.
ClampBranchComputes ==
  /\ safety' = "CLAMPED"
  /\ tick' = [tick EXCEPT !.at = "publish"]
  /\ Input' = current_mA
  /\ \E r \in {PID_Compute(myPID, ms, current_mA, Setpoint, Output)} :
       /\ myPID' = r.pid
       /\ Output' = r.out
  /\ dac' = <<DAC_SAFETY_VALUE>>
\* The branch of the safety check that clamps: dacWrite(DAC_PIN, DAC_SAFETY_VALUE).
ClampBranch ==
  /\ safety' = "CLAMPED"
  /\ tick' = [tick EXCEPT !.at = "publish"]
  /\ UNCHANGED <<Input, Output, myPID>>
  /\ dac' = <<DAC_SAFETY_VALUE>>

\* The safety check; in its else branch, Input = current_mA.  The target the
\* check compared is kept with the iteration.
SafetyCheck ==
  /\ tick.at = "check"
  /\ IF Clamped(busVoltage_V, targetCurrent_mA, current_mA)
     THEN ClampBranch
     ELSE /\ Input' = current_mA
          /\ safety' = "NORMAL"
          /\ tick' = [at |-> "compute", quiet |-> tick.quiet, spent |-> tick.spent,
                      json |-> <<>>, stored |-> <<>>, target |-> targetCurrent_mA]
          /\ UNCHANGED <<dac, Output, myPID>>
  /\ snapshot' = <<>>
  /\ TickFrame
  /\ UNCHANGED <<ms, busVoltage_V, current_mA, lastEventTime, ticks>>

\* myPID.Compute(); setBuckFeedback(Output);
Compute ==
  /\ tick.at = "compute"
  /\ \E r \in {PID_Compute(myPID, ms, Input, Setpoint, Output)} :
       /\ myPID' = r.pid
       /\ Output' = r.out
       /\ \E level \in setBuckFeedback(r.out) : dac' = <<level>>
  /\ tick' = [tick EXCEPT !.at = "publish"]
  /\ snapshot' = <<>>
  /\ TickFrame
  /\ UNCHANGED <<ms, busVoltage_V, current_mA, Input, lastEventTime, safety, ticks>>

\* The stored parameters as they are between two requests: those stored now
\* when no request is being served, else those stored when the request being
\* served arrived.
BetweenRequests == IF handler = NoHandler THEN Stored ELSE handler.before

\* What a step of the telemetry block leaves alone.
TelemetryFrame ==
  /\ snapshot' = <<>>
  /\ TickFrame
  /\ UNCHANGED <<ms, busVoltage_V, current_mA, Input, Output, myPID, dac, safety, ticks>>

\* if (millis() - lastEventTime > sseInterval)
TelemetryTest ==
  /\ tick.at = "publish"
  /\ tick' = [tick EXCEPT !.at = IF TelemetryDue THEN "stamp" ELSE "delay"]
  /\ UNCHANGED lastEventTime
  /\ TelemetryFrame

\* lastEventTime = millis(); then the two fields only loop() writes:
\* String(busVoltage_V, 2) and String(current_mA, 2).
Stamp ==
  /\ tick.at = "stamp"
  /\ lastEventTime' = ms
  /\ tick' = [tick EXCEPT !.at = "read_target",
                          !.json = <<busVoltage_V, current_mA>>,
                          !.stored = BetweenRequests]
  /\ TelemetryFrame

\* jsonData += ... + String(x): one global is read and appended.
ReadField(at, x, next) ==
  /\ tick.at = at
  /\ tick' = [tick EXCEPT !.at = next,
                          !.json = Append(tick.json, x)]
  /\ UNCHANGED lastEventTime
  /\ TelemetryFrame

\* String(targetCurrent_mA, 2)
ReadTarget == ReadField("read_target", targetCurrent_mA, "read_kp")
\* String(Kp)
ReadKp == ReadField("read_kp", Kp, "read_ki")
\* String(Ki)
ReadKi == ReadField("read_ki", Ki, "read_kd")
\* String(Kd)
ReadKd == ReadField("read_kd", Kd, "read_limit")
\* String(maxCurrentLimit_mA)
ReadLimit == ReadField("read_limit", maxCurrentLimit_mA, "read_interval")
\* String(sseInterval / 1000.0, 1)
ReadInterval == ReadField("read_interval", SecondsTenths(sseInterval), "send")

\* events.send(jsonData.c_str(), "message", millis());
SendEvent ==
  /\ tick.at = "send"
  /\ snapshot' = <<Telemetry(tick.json, ms)>>
  /\ tick' = [tick EXCEPT !.at = "delay"]
  /\ TickFrame
  /\ UNCHANGED <<ms, busVoltage_V, current_mA, Input, Output, myPID, dac, safety, ticks,
                 lastEventTime>>

\* delay(10): the end of the iteration, which has taken one of the given
\* times in all.
Delay(periods) ==
  /\ tick.at = "delay"
  /\ \E d \in periods : ms' = U32Plus(ms, d - tick.spent)
  /\ ticks' = ticks + 1
  /\ tick' = NoTick
  /\ snapshot' = <<>>
  /\ TickFrame
  /\ UNCHANGED <<busVoltage_V, current_mA, Input, Output, myPID, dac, safety, lastEventTime>>

\* millis() counts on while loop() executes: between two statements of an
\* iteration the clock advances, once, by one of the given amounts.
Elapse(drifts) ==
  /\ pc = "running" /\ tick.at \notin {"idle", "delay"}
  /\ tick.spent = 0
  /\ \E a \in drifts :
       /\ ms' = U32Plus(ms, a)
       /\ tick' = [tick EXCEPT !.spent = a]
  /\ snapshot' = <<>>
  /\ TickFrame
  /\ UNCHANGED <<busVoltage_V, current_mA, Input, Output, myPID, dac, safety, ticks,
                 lastEventTime>>

\* The steps of the server's task once it has taken up a request.
HandlerStep ==
  \/ SetTarget
  \/ SetSetpoint
  \/ PidKp
  \/ PidKi
  \/ PidKd
  \/ PidTunings
  \/ AdvLimit
  \/ AdvCalibrate
  \/ AdvClamp
  \/ AdvSetpoint
  \/ AdvInterval

\* The steps of the loop task inside loop(), with given sensor readings and
\* iteration times.
TickStepOver(volts, currents, periods) ==
  \/ ReadVoltage(volts)
  \/ ReadCurrent(currents)
  \/ SafetyCheck
  \/ Compute
  \/ TelemetryTest
  \/ Stamp
  \/ ReadTarget
  \/ ReadKp
  \/ ReadKi
  \/ ReadKd
  \/ ReadLimit
  \/ ReadInterval
  \/ SendEvent
  \/ Delay(periods)

\* ------------------------------------------------------------------ Next
\* The device from power-up, with every request of the three routes.
Next ==
  \/ SetupSensor
  \/ Halt
  \/ SetupWifi(ConnectTimes)
  \/ SetupLoadTarget
  \/ SetupStoreSetpoint
  \/ AcceptFrom(Requests)
  \/ HandlerStep
  \/ TickStepOver(Volts, Currents, LoopPeriods)
  \/ Elapse(Drifts)

Spec == Init /\ [][Next]_vars

\* ------------------------------------------------- the routes one at a time
\* The device with the requests of /set alone.
NextSet ==
  \/ SetupSensor
  \/ Halt
  \/ SetupWifi(ConnectTimes)
  \/ SetupLoadTarget
  \/ SetupStoreSetpoint
  \/ AcceptFrom(SetRequests)
  \/ SetTarget
  \/ SetSetpoint
  \/ TickStepOver(Volts, Currents, LoopPeriods)
  \/ Elapse(Drifts)

SpecSet == Init /\ [][NextSet]_vars

\* The device with the requests of /setadvanced that bear on the calibration:
\* those carrying max, and one that does not.
NextAdvanced ==
  \/ SetupSensor
  \/ Halt
  \/ SetupWifi(ConnectTimes)
  \/ SetupLoadTarget
  \/ SetupStoreSetpoint
  \/ AcceptFrom({r \in SetAdvancedRequests :
                   hasParam(r[2][1]) \/ r[2] = <<Absent, Num(50)>>})
  \/ AdvLimit
  \/ AdvCalibrate
  \/ AdvClamp
  \/ AdvSetpoint
  \/ AdvInterval
  \/ TickStepOver(Volts, Currents, LoopPeriods)
  \/ Elapse(Drifts)

SpecAdvanced == Init /\ [][NextAdvanced]_vars

\* ------------------------------------------------------ the sensor readings
\* Two /set requests, with bus voltages below, at and above the maximum,
\* currents below and above the default target, and short and long
\* iterations.
LoopRequests == {<<"set", <<Num(800)>>>>, <<"set", <<NanText>>>>}
LoopVolts == {24, 25, 26}
LoopCurrents == {50, 150}
LoopTimes == {LOOP_DELAY, 10 * LOOP_DELAY}

NextLoop ==
  \/ SetupSensor
  \/ Halt
  \/ SetupWifi(ConnectTimes)
  \/ SetupLoadTarget
  \/ SetupStoreSetpoint
  \/ AcceptFrom(LoopRequests)
  \/ SetTarget
  \/ SetSetpoint
  \/ TickStepOver(LoopVolts, LoopCurrents, LoopTimes)
  \/ Elapse(Drifts)

SpecLoop == Init /\ [][NextLoop]_vars

\* ------------------------------------------- the wrap of millis() at 2^32
\* loop() starts just before the wrap, with requests that change the report
\* interval and the target.
WrapRequests ==
  {<<"set", <<Num(50)>>>>, <<"setpid", <<Num(10), Text, Num(0)>>>>,
   <<"setadvanced", <<Absent, Num(50)>>>>, <<"setadvanced", <<Num(60), Num(2000)>>>>}

NextWrap ==
  \/ SetupSensor
  \/ Halt
  \/ SetupWifi(PortalTimes)
  \/ SetupLoadTarget
  \/ SetupStoreSetpoint
  \/ AcceptFrom(WrapRequests)
  \/ HandlerStep
  \/ TickStepOver(Volts, Currents, WrapPeriods)
  \/ Elapse(Drifts)

SpecWrap == Init /\ [][NextWrap]_vars

\* --------------------------------------------- the requests against loop()
\* The requests and sensor readings with which the interleavings of a
\* handler's statements with the stages of loop() are examined.
ConcRequests ==
  {<<"set", <<Num(50)>>>>, <<"setpid", <<Num(-1), Text, Num(0)>>>>,
   <<"setadvanced", <<Num(60), Absent>>>>, <<"setadvanced", <<NanText, Absent>>>>}
\* The requests of the specification with fairness: one to each route, each
\* with the parameters its handler stores.
LiveRequests ==
  {<<"set", <<Num(50)>>>>, <<"setpid", <<Num(10), Text, Num(0)>>>>,
   <<"setadvanced", <<Num(60), Absent>>>>}
ConcVolts == {24, 26}

\* The steps of loop() in the specification with fairness.
TickStep == TickStepOver(Volts, Currents, LoopPeriods)

NextConc ==
  \/ SetupSensor
  \/ Halt
  \/ SetupWifi(ConnectTimes)
  \/ SetupLoadTarget
  \/ SetupStoreSetpoint
  \/ AcceptFrom(ConcRequests)
  \/ HandlerStep
  \/ TickStepOver(ConcVolts, Currents, LoopPeriods)
  \/ Elapse(Drifts)

SpecConc == Init /\ [][NextConc]_vars

\* The device with the requests of /setpid, and a /set request without its
\* parameter.
NextPid ==
  \/ SetupSensor
  \/ Halt
  \/ SetupWifi(ConnectTimes)
  \/ SetupLoadTarget
  \/ SetupStoreSetpoint
  \/ AcceptFrom(SetPidRequests \cup {<<"set", <<Absent>>>>})
  \/ PidKp
  \/ PidKi
  \/ PidKd
  \/ PidTunings
  \/ TickStepOver(ConcVolts, Currents, LoopPeriods)
  \/ Elapse(Drifts)

SpecPid == Init /\ [][NextPid]_vars

\* The device with a request to each route.
NextLive ==
  \/ SetupSensor
  \/ Halt
  \/ SetupWifi(ConnectTimes)
  \/ SetupLoadTarget
  \/ SetupStoreSetpoint
  \/ AcceptFrom(LiveRequests)
  \/ HandlerStep
  \/ TickStep
  \/ Elapse(Drifts)

\* The scheduler runs each task that has a step to take: loop() is called
\* again after every return, and a handler that has started runs to its end.
SpecLive == Init /\ [][NextLive]_vars /\ WF_vars(TickStep) /\ WF_vars(HandlerStep)

\* =================================================================== claims
\* The step that ends an iteration of loop().
LoopStep == pc = "running" /\ ticks' = ticks + 1
\* A step in which loop() executes the statement it has reached: "check" its
\* safety check, "publish" the comparison of the time since the last event
\* with the interval, "stamp" the note of the time of the event it builds.
Passes(stage) == tick.at = stage /\ tick'.at # stage
\* The step in which loop() hands the PID its work and writes the level
\* derived from its Output.
UsesSetpoint == pc = "running" /\ tick.at = "compute" /\ tick'.at # "compute"
\* The state right after a request to the route has returned.
Returned(route) == lastReq.route = route

\* C1: immediately after every /set and /setadvanced request returns,
\* targetCurrent_mA <= maxCurrentLimit_mA.
C1_TargetWithinLimit ==
  (Returned("set") \/ Returned("setadvanced"))
    => FLe(targetCurrent_mA, maxCurrentLimit_mA)

\* C2: in every loop() iteration the safety check takes the clamp branch
\* exactly when the sampled bus voltage is at least 25 and the target exceeds
\* the sampled current; the clamp branch writes DAC_SAFETY_VALUE to the DAC,
\* the other branch the level setBuckFeedback derives from the PID's Output;
\* and that level is on the DAC when the iteration ends.
C2_TickDecision ==
  /\ Passes("check") =>
       /\ safety' \in {"CLAMPED", "NORMAL"}
       /\ safety' = "CLAMPED" <=>
            (busVoltage_V >= 25 /\ FGt(targetCurrent_mA, D(current_mA)))
       /\ safety' = "CLAMPED" => dac' = <<DAC_SAFETY_VALUE>>
  /\ UsesSetpoint =>
       /\ safety = "NORMAL"
       /\ \E level \in IntCast(Output') : dac' = <<Constrain(level, 1, 255)>>
  /\ LoopStep =>
       /\ safety = "CLAMPED" => dac = <<DAC_SAFETY_VALUE>>
       /\ safety = "NORMAL" =>
            \E level \in IntCast(Output) : dac = <<Constrain(level, 1, 255)>>
C2_SafetyIffOvervoltageBelowTarget == [][C2_TickDecision]_vars
\* A clamped iteration at 26 V, 50 mA, target 100 mA has ended, and the PID's
\* output is not the safety level.
C2_Witness ==
  /\ safety = "CLAMPED" /\ busVoltage_V = 26 /\ current_mA = 50
  /\ targetCurrent_mA = D(100)
  /\ dac = <<DAC_SAFETY_VALUE>>
  /\ Output # D(10 * DAC_SAFETY_VALUE)
  /\ myPID.inAuto /\ tick.at = "idle" /\ ticks >= 1

\* What the PID object accumulates, apart from its working gains.
Accumulated ==
  <<myPID.outputSum, myPID.lastInput, myPID.lastTime, myPID.inAuto,
    myPID.outMin, myPID.outMax>>

\* C3: the clamp branch of the safety check leaves the PID's input, its
\* output and the PID object as they were, and so does every other step
\* taken, by loop() or by a handler, from the beginning to the end of a
\* clamped iteration (an iteration that never reaches the PID computation);
\* a handler may then change the working gains only.
C3_FreezeStep ==
  /\ (Passes("check") /\ safety' = "CLAMPED") => UNCHANGED <<Input, Output, myPID>>
  /\ (pc = "running" /\ tick.at # "compute" /\ tick'.at # "compute") =>
       UNCHANGED <<Input, Output, Accumulated>>
C3_ClampedFreezesPID == [][C3_FreezeStep]_vars
\* Two iterations done, the last one clamped, after the PID has computed.
C3_Witness ==
  /\ safety = "CLAMPED" /\ ticks = 2 /\ tick.at = "idle"
  /\ myPID.outputSum # D(0)
  /\ Input # current_mA

\* C4: every level written to the DAC is in 1..255.
C4_DacInRange == dac # <<>> => dac[1] \in 1..255
\* The PID output is 0 and the DAC received 1.
C4_Witness == safety = "NORMAL" /\ Output = D(0) /\ dac = <<1>>

\* C5: sseInterval is at least 100 ms, and after a /setadvanced request that
\* carries an interval (a number of seconds) it is the requested interval
\* raised to 100 ms.
C5_IntervalFloor ==
  /\ sseInterval >= 100
  /\ (Returned("setadvanced") /\ hasParam(lastReq.args[2])) =>
       LET requested == toDouble(lastReq.args[2])
       IN ~IsNaN(requested) =>
            sseInterval = IF V(requested) > 100 THEN V(requested) ELSE 100

\* C6: a /set request carrying current answers 200 and, when it returns, the
\* target is the smaller of the requested current and the limit; the gains
\* (stored and working), the limit and the report interval are those stored
\* when the request arrived.
C6_SetStep ==
  (lastReq'.route = "set" /\ hasParam(lastReq'.args[1])) =>
    LET c == toDouble(lastReq'.args[1])
        was == handler.before
    IN /\ lastReq'.status = 200
       /\ targetCurrent_mA' = IF FLt(was.limit, c) THEN was.limit ELSE c
       /\ [Stored' EXCEPT !.target = was.target, !.setpoint = was.setpoint] = was
C6_SetClampsToLimit == [][C6_SetStep]_vars
\* current=800 with the limit at 500 has just stored 500.
C6_Witness ==
  /\ Returned("set") /\ lastReq.args = <<Num(800)>> /\ lastReq.status = 200
  /\ maxCurrentLimit_mA = D(500) /\ targetCurrent_mA = D(500)

\* C7: a /set request without current and a /setpid request lacking one of
\* kp, ki, kd answer 400 and change no control parameter.
C7_MissingStep ==
  (\/ lastReq'.route = "set" /\ ~hasParam(lastReq'.args[1])
   \/ lastReq'.route = "setpid" /\ \E i \in 1..3 : ~hasParam(lastReq'.args[i]))
    => lastReq'.status = 400 /\ UNCHANGED params
C7_MissingParamRejected == [][C7_MissingStep]_vars
\* A /setpid request with kp and ki but no kd has just been answered 400.
C7_Witness ==
  /\ Returned("setpid") /\ lastReq.status = 400
  /\ hasParam(lastReq.args[1]) /\ hasParam(lastReq.args[2]) /\ ~hasParam(lastReq.args[3])

\* C8: a /setadvanced request carrying neither max nor interval answers 400
\* and changes no parameter; the answer is 200 only when one of them is
\* present.
C8_AdvancedStep ==
  lastReq'.route = "setadvanced" =>
    LET some == hasParam(lastReq'.args[1]) \/ hasParam(lastReq'.args[2])
    IN /\ ~some => (lastReq'.status = 400 /\ UNCHANGED params)
       /\ lastReq'.status = 200 => some
C8_AdvancedNeedsParam == [][C8_AdvancedStep]_vars

\* C9: targetCurrent_mA >= 0 and maxCurrentLimit_mA > 0 in every state.
C9_NonNegative ==
  FGe(targetCurrent_mA, D(0)) /\ FGt(maxCurrentLimit_mA, D(0))

\* C10: a request with a non-numeric parameter is answered with a client
\* error and changes no parameter.
C10_MalformedStep ==
  (lastReq'.route # "none" /\ \E i \in 1..Len(lastReq'.args) : lastReq'.args[i] = Text)
    => lastReq'.status = 400 /\ UNCHANGED params
C10_MalformedRejected == [][C10_MalformedStep]_vars

\* ------------------------------------------- claims on the interleaved tasks
\* A step in which loop() sends a telemetry event.
Publishes == snapshot' # <<>>

\* C11: neither the safety check of an iteration nor a telemetry event sees
\* a target above the limit: a /setadvanced request that lowers the limit
\* below the target lowers the target in the same indivisible step.
C11_Observation ==
  /\ Passes("check") => ~FGt(targetCurrent_mA, maxCurrentLimit_mA)
  /\ Publishes => ~FGt(snapshot'[1].setpoint, snapshot'[1].max_limit)
C11_LimitAndTargetTogether == [][C11_Observation]_vars

\* The stored parameters a whole request may leave when it is applied, alone
\* and from start to end, to the stored parameters s.
Applied(route, args, s) ==
  CASE route = "set" ->
         IF hasParam(args[1])
         THEN LET t == Min(toDouble(args[1]), s.limit)
              IN {[s EXCEPT !.target = t, !.setpoint = t]}
         ELSE {s}
    [] route = "setpid" ->
         IF PidParamsPresent(args[1], args[2], args[3])
         THEN LET g == PID_SetTunings([kp |-> s.kp, ki |-> s.ki, kd |-> s.kd],
                                      toDouble(args[1]), toDouble(args[2]), toDouble(args[3]))
              IN {[s EXCEPT !.Kp = toDouble(args[1]), !.Ki = toDouble(args[2]),
                            !.Kd = toDouble(args[3]),
                            !.kp = g.kp, !.ki = g.ki, !.kd = g.kd]}
         ELSE {s}
    [] route = "setadvanced" ->
         LET a == IF ~hasParam(args[1]) THEN s
                  ELSE LET l == toDouble(args[1])
                       IN IF TargetAbove(s.target, l)
                          THEN [s EXCEPT !.limit = l, !.target = l, !.setpoint = l]
                          ELSE [s EXCEPT !.limit = l]
         IN IF hasParam(args[2])
            THEN {[a EXCEPT !.interval = i] : i \in IntervalMs(args[2])}
            ELSE {a}
    [] OTHER -> {s}

\* The parameter fields of a telemetry event, and the same fields of a set
\* of stored parameters.
EventParams(e) == <<e.setpoint, e.kp, e.ki, e.kd, e.max_limit, e.sse_interval>>
ParamsOf(s) == <<s.target, s.Kp, s.Ki, s.Kd, s.limit, SecondsTenths(s.interval)>>

\* C12: the parameters a telemetry event carries are the stored parameters
\* as they were before the request being served, or as they are after the
\* whole of it; never some fields of the one and some of the other.  (Of the
\* events built while one request alone was served: the parameters stored
\* when loop() began to build the event are those stored when it arrived.)
C12_EventStep ==
  (Publishes /\ handler.route # "none" /\ tick.stored = handler.before) =>
    EventParams(snapshot'[1]) \in
      {ParamsOf(handler.before)} \cup
      {ParamsOf(a) : a \in Applied(handler.route, handler.args, handler.before)}
C12_ConsistentRead == [][C12_EventStep]_vars

\* The stored parameters after the end of setup(): Setpoint = targetCurrent_mA.
Initialised(s) == [s EXCEPT !.setpoint = s.target]

\* C13: when a request returns, the stored parameters are those the whole
\* request leaves when applied to the parameters stored when it arrived (the
\* requests take effect one at a time, in the order served; the end of
\* setup(), if it ran meanwhile, before or after the request), and the target
\* is at most the limit.
C13_SerialStep ==
  lastReq'.route # "none" =>
    Stored' \in
      IF handler.route = "none" THEN {Stored}
      ELSE Applied(handler.route, handler.args, handler.before) \cup
           Applied(handler.route, handler.args, Initialised(handler.before)) \cup
           {Initialised(a) : a \in Applied(handler.route, handler.args, handler.before)}
C13_ReturnStep ==
  /\ C13_SerialStep
  /\ lastReq'.route # "none" => FLe(targetCurrent_mA', maxCurrentLimit_mA')
C13_LastWriteWins == [][C13_ReturnStep]_vars

\* A step in which a handler calls into the sensor driver, and the states in
\* which loop() has read the bus voltage and not yet the current.
Calibrates == handler.at = "calibrate" /\ handler'.at # "calibrate"
ReadingSensor == tick.at = "current"

\* C14: no handler uses the sensor while loop() is in the middle of its
\* sensor reads.
C14_SensorStep == Calibrates => ~ReadingSensor
C14_SensorOwnedByLoop == [][C14_SensorStep]_vars

\* A step of loop(), from one stage to the next.
TickStepTaken == pc = "running" /\ tick'.at # tick.at

\* C15: no stage of loop() changes the target, the setpoint, the limit, the
\* report interval or a gain (the globals or the PID's working gains); once
\* loop() runs, they change only in a step of a request handler.
C15_ReadOnlyStep ==
  /\ TickStepTaken => UNCHANGED params
  /\ (pc = "running" /\ params' # params) => handler.route # "none"
C15_LoopOnlyReads == [][C15_ReadOnlyStep]_vars
\* The second iteration, clamped, has just sent its telemetry event, after
\* a first one computed the PID, while a /set request is half done.
C15_Witness ==
  /\ ticks = 1 /\ tick.at = "delay" /\ snapshot # <<>> /\ safety = "CLAMPED"
  /\ myPID.outputSum # D(0)
  /\ handler.route = "set" /\ Setpoint # targetCurrent_mA

\* A step of an iteration of loop() that began when no request was being
\* served, none having arrived since: every request so far returned before
\* the iteration began.
Fresh(stage) == tick.quiet /\ tick.at = stage /\ tick'.at # stage

\* C16: in an iteration that begins after the requests have returned, the
\* safety check decides on the stored target, the PID works with that target
\* as its setpoint and with the stored gains Kp, Ki, Kd (in its own units:
\* kp, ki * 0.1 s, kd / 0.1 s), and the telemetry block compares the elapsed
\* time with the stored interval.
C16_FreshStep ==
  /\ Fresh("check") =>
       (safety' = "CLAMPED") = Clamped(busVoltage_V, targetCurrent_mA, current_mA)
  /\ Fresh("compute") =>
       /\ Setpoint = targetCurrent_mA
       /\ myPID.kp = FMul(D(10), Kp)
       /\ myPID.ki = FMul(D(1), Ki)
       /\ myPID.kd = FMul(D(100), Kd)
  /\ Fresh("publish") =>
       (tick'.at = "stamp") = U32Gt(U32Minus(ms, lastEventTime), sseInterval)
C16_EffectiveByNextTick == [][C16_FreshStep]_vars

C17_TickStep ==
  /\ Passes("publish") =>
       (tick'.at = "stamp") = U32Ge(U32Minus(ms, lastEventTime), sseInterval)
  /\ Passes("stamp") => lastEventTime' = ms
  /\ (pc = "running" /\ ~Passes("stamp")) => UNCHANGED lastEventTime
C17_PublishWhenElapsed == [][C17_TickStep]_vars

\* C19: setup() gets past the sensor only with the sensor found and
\* calibrated; otherwise the device halts, and a halted device stays halted:
\* its DAC has never been written, no request is ever served, no iteration of
\* loop() ever runs, and no control parameter changes.
C19_HaltStep ==
  /\ pc = "boot" => pc' \in {"boot", "wifi", "halt"}
  /\ pc' = "halt" =>
       /\ dac' = <<>> /\ safety' = "NONE" /\ snapshot' = <<>>
       /\ nReq' = 0 /\ lastReq' = NoRequest /\ tick' = NoTick
  /\ pc = "halt" => (pc' = "halt" /\ UNCHANGED <<params, calibration, Input, Output>>)
C19_HaltsForever == [][C19_HaltStep]_vars
\* The sensor was found, the calibration was rejected, and the device has
\* gone round its halt loop twice.
C19_Witness ==
  pc = "halt" /\ calibration = <<D(DEFAULT_LIMIT)>> /\ ticks >= 2

\* C20: after an iteration of loop() that is not clamped, the PID's Output
\* is within 1..255 (10..2550 in tenths) and the level written to the DAC is
\* that Output itself (its integer part), with no further clamp.
C20_NormalStep ==
  (LoopStep /\ safety' = "NORMAL") =>
    /\ FGe(Output', D(10 * 1)) /\ FLe(Output', D(10 * 255))
    /\ dac' = <<V(Output') \div 10>>
C20_PidOutputIsDacLevel == [][C20_NormalStep]_vars

\* The nearest integer to (1.25 / 3.3) * 255, in hundredths as DAC_SAFETY_VALUE.
RoundedSafetyOutput == (2 * 125 * 255 + 330) \div (2 * 330)

\* C21: the safety level is the nearest integer to (1.25 / 3.3) * 255 = 96.59...,
\* which is 97, it is within 1..255, and it is the level a clamped iteration
\* leaves on the DAC.
C21_SafetyOutputRounded ==
  /\ RoundedSafetyOutput = 97
  /\ DAC_SAFETY_VALUE = RoundedSafetyOutput
  /\ DAC_SAFETY_VALUE \in DAC_MIN..DAC_MAX
  /\ safety = "CLAMPED" => dac = <<RoundedSafetyOutput>>

\* C22: a /setpid request answered 200 makes the three gains of the request
\* the stored gains and the gains the PID works with (in its own units), and
\* no statement of its handler changes anything else: not the PID's
\* accumulated sum, last input, mode or limits, not Input or Output, not the
\* target, the setpoint, the limit or the report interval.
C22_FrameStep ==
  (handler.route = "setpid" /\ handler' # handler) =>
    /\ myPID' = [myPID EXCEPT !.kp = myPID'.kp, !.ki = myPID'.ki, !.kd = myPID'.kd]
    /\ UNCHANGED <<Input, Output, targetCurrent_mA, Setpoint, maxCurrentLimit_mA,
                   sseInterval>>
C22_RetuneStep ==
  /\ C22_FrameStep
  /\ (lastReq'.route = "setpid" /\ lastReq'.status = 200) =>
       /\ <<Kp', Ki', Kd'>> = <<toDouble(lastReq'.args[1]), toDouble(lastReq'.args[2]),
                                toDouble(lastReq'.args[3])>>
       /\ myPID'.kp = FMul(D(10), Kp')
       /\ myPID'.ki = FMul(D(1), Ki')
       /\ myPID'.kd = FMul(D(100), Kd')
C22_SetPidReplacesGainsOnly == [][C22_RetuneStep]_vars

\* C23: once setup() has calibrated the sensor, whenever no request is being
\* served, the limit last passed to ina219.setMaxCurrentShunt is the stored
\* maxCurrentLimit_mA; after a /setadvanced request that carries max has
\* returned, it is the limit of the request.
C23_CalibrationFollowsLimit ==
  /\ (pc \in {"wifi", "serving", "running"} /\ handler = NoHandler) =>
       calibration = <<maxCurrentLimit_mA>>
  /\ (Returned("setadvanced") /\ hasParam(lastReq.args[1])) =>
       calibration = <<toDouble(lastReq.args[1])>>
\* max=60 has just been stored and passed to the calibration.
C23_Witness ==
  /\ Returned("setadvanced") /\ lastReq.args[1] = Num(60)
  /\ maxCurrentLimit_mA = D(60) /\ calibration = <<D(60)>>

\* C24: in every iteration of loop() the target the safety check compared
\* (kept with the iteration) equals the setpoint stored at the step in which
\* the PID is handed its work and regulates toward, also with a request half
\* done; the setpoint equals the stored target when setup() ends and when a
\* request returns.
C24_UseStep ==
  /\ UsesSetpoint => Setpoint = tick.target
  /\ (pc = "serving" /\ pc' = "running") => Setpoint' = targetCurrent_mA'
  /\ lastReq'.route # "none" => Setpoint' = targetCurrent_mA'
C24_SetpointIsTarget == [][C24_UseStep]_vars

\* Whether the counter, counting up from the time of the last event and
\* wrapping at 2^32, reaches the present time within n counts.
WithinOf(n) == \E e \in 0..n : U32Plus(lastEventTime, e) = ms

\* C25: an iteration of loop() goes on to send an event exactly when more
\* than sseInterval milliseconds have gone by on the wrapping counter since
\* the last one, whether or not the counter wrapped in between: it sends none
\* within the interval, sends one after it, and a sending iteration alone
\* sets lastEventTime, to the present time; the event bears the time at
\* which it is sent.
C25_WrapStep ==
  /\ Passes("publish") => (tick'.at = "stamp") = ~WithinOf(sseInterval)
  /\ Passes("stamp") => lastEventTime' = ms
  /\ (pc = "running" /\ ~Passes("stamp")) => UNCHANGED lastEventTime
  /\ Publishes => tick.at = "send" /\ snapshot'[1].id = ms
C25_TimerSurvivesWrap == [][C25_WrapStep]_vars
\* The first iteration sent an event 50 ms before the wrap and took 200 ms;
\* the second, 150 ms after the wrap with the interval at 100 ms, has sent
\* the next one, a millisecond after noting its time.
C25_Witness ==
  /\ ticks = 1 /\ tick.at = "delay" /\ snapshot # <<>>
  /\ sseInterval = MIN_INTERVAL_MS
  /\ lastEventTime = U32(15 * LOOP_DELAY)
  /\ snapshot[1].id = U32Plus(lastEventTime, 1)

\* A stage of an iteration of loop() (the end of setup() keeps its loaded
\* target in the same place), and the first stage of the first iteration.
InIteration(at) == at \notin {"idle", "setpoint"}
FirstTickBegins == pc = "running" /\ ticks = 0 /\ tick.at = "idle" /\ tick'.at # "idle"

\* C26, the order of the start-up: the DAC is first written, with 1, in the
\* step that gets past the sensor with the sensor found and calibrated; the
\* level is then changed by loop() alone (or lost in a restart); no
\* iteration of loop() is under way before the server is started and the PID
\* is in automatic mode with its output limits.
C26_OrderStep ==
  /\ (dac = <<>> /\ dac' # <<>>) =>
       /\ dac' = <<DAC_MIN>>
       /\ pc = "boot" /\ pc' = "wifi"
       /\ calibration' = <<maxCurrentLimit_mA>>
  /\ (dac # <<>> /\ dac' # dac) =>
       \/ TickStepTaken \/ LoopStep
       \/ pc = "wifi" /\ pc' = "boot" /\ dac' = <<>>
  /\ InIteration(tick'.at) =>
       /\ pc' = "running"
       /\ myPID'.inAuto
       /\ myPID'.outMin = PID_OUT_MIN /\ myPID'.outMax = PID_OUT_MAX
\* C26: the start-up is ordered, and when the first iteration of loop()
\* begins with no request half done, the setpoint is the stored target,
\* whatever requests were served since server.begin().
C26_FirstTickStep ==
  /\ C26_OrderStep
  /\ (FirstTickBegins /\ handler = NoHandler) => Setpoint = targetCurrent_mA
C26_StartupOrdered == [][C26_FirstTickStep]_vars

====
